---- MODULE Spec2Model ----
(***************************************************************************)
(* Model of codemarks: the persisted projects database and the three       *)
(* operations that mutate it: scan_directory (src/scan/mod.rs),            *)
(* process_changed_file (src/watch/mod.rs) and clean_resolved              *)
(* (src/clean/mod.rs).                                                     *)
(*                                                                         *)
(* A path is the sequence of its components, a line of a source file is    *)
(* the string of its characters, a Codemark is a record with the fields of *)
(* the Rust struct, and the projects database is a function from the       *)
(* stored project names to their Vec<Codemark>.                            *)
(*                                                                         *)
(* Spec is the tool run in its persistent mode (ephemeral = false): every  *)
(* step is one whole invocation of scan, of the watch handler for one file *)
(* event, or of clean.  pre and last record the store before the last      *)
(* invocation and what the invocation was given and returned.              *)
(*                                                                         *)
(* EphemeralSpec adds the invocations with --ephemeral and codemarks list. *)
(* WatchSpec is the loop of watch_directory on one project: the channel of *)
(* events, the clock and the last-seen map of the debounce, with the store *)
(* updated by each call of process_changed_file.  DiskSpec is the file     *)
(* projects.json under two invocations that run at the same time: each     *)
(* loads, works out its store and saves with fs::write, which empties the  *)
(* file and then writes the document; an invocation may be terminated      *)
(* anywhere.                                                               *)
(*                                                                         *)
(* MainSpec is main(): initialize_codemarks and one of the commands scan,  *)
(* list, config, watch and clean, with HOME set or not and with the        *)
(* pattern of config.json, which the user may also write by hand; last     *)
(* records what the command returned, what was written to standard error   *)
(* and the exit status.  CiSpec is codemarks ci.  ReadSpec is the scan of  *)
(* files that do not open and of lines that do not decode.  ScenarioSpec   *)
(* is the scan of one file that is edited between the scans.               *)
(***************************************************************************)
EXTENDS Integers, Sequences, FiniteSets, TLC

\* ------------------------------------------------------------------ bounds
\* longest source file, in lines
MaxLines == 2
\* most Codemarks in the store, all projects together
MaxEntries == 2
\* latest reading of the clock of the watch loop
MaxTime == 4
\* most filesystem events sent to the watch loop
MaxEvents == 2
\* most invocations of the tool that run against one store file
MaxRuns == 2

\* ------------------------------------------------------------ input domains
\* last path component of the scanned directories
ProjectNames == {"p", "q"}
\* source files a directory may hold
FileNames == {"a.rs"}
\* the lines the source files are made of
LineSet == {"let x = 5;", "// TODO: fix X"}
\* value of an absent --project
NoFilter == "<none>"

\* ----------------------------------------------------------------- helpers
Codemark(f, n, d, r) ==
  [file |-> f, line_number |-> n, description |-> d, resolved |-> r]

\* Regex::is_match of the default annotation pattern on one line
IsMatch(line) == line \in {"// TODO: fix X", "// FIXME: fix Y"}

\* captures.get(1).as_str().trim() of the default annotation pattern
Capture1(line) ==
  CASE line = "// TODO: fix X" -> "fix X"
    [] line = "// FIXME: fix Y" -> "fix Y"
    [] OTHER -> ""

\* directory.canonicalize()
Canonical(k) == <<"/", k>>

\* the --directory arguments drawn for directory k: its canonical path (with
\* another form, such as ".", strip_prefix fails and the walked path is kept)
DirArgs(k) == {Canonical(k)}

\* Path::strip_prefix: the rest of path after base, or the Err value
StripErr == <<"<err>">>
StripPrefix(path, base) ==
  IF Len(path) >= Len(base) /\ SubSeq(path, 1, Len(base)) = base
  THEN SubSeq(path, Len(base) + 1, Len(path))
  ELSE StripErr

\* the file value scan_directory gives to the entries of one walked file
RelativePath(file_path, canonical_dir) ==
  IF StripPrefix(file_path, canonical_dir) # StripErr
  THEN StripPrefix(file_path, canonical_dir)
  ELSE file_path

\* ------------------------------------------------------------ input values
\* the sequences over S of length at most n
RECURSIVE SeqsUpTo(_, _)
SeqsUpTo(S, n) ==
  IF n = 0 THEN {<<>>}
  ELSE SeqsUpTo(S, n - 1) \cup
       {Append(s, x) : s \in {t \in SeqsUpTo(S, n - 1) : Len(t) = n - 1}, x \in S}

\* the contents a source file may have
Contents == SeqsUpTo(LineSet, MaxLines)

\* the contents a directory may have: every file has a content
Directories == [FileNames -> Contents]

\* the orders in which the directory walker may yield the files
WalkOrders ==
  {o \in [1..Cardinality(FileNames) -> FileNames] :
     \A i, j \in DOMAIN o : i # j => o[i] # o[j]}

\* ---------------------------------------------------------------- the store
\* ProjectsDatabase::default(): no project
EmptyDb == [k \in {} |-> <<>>]

\* the insert into a fresh map: the other projects are lost
InsertAlone(db, name, list) == [k \in {name} |-> list]

\* projects.insert(name, list)
Insert(db, name, list) ==
  [k \in DOMAIN db \cup {name} |-> IF k = name THEN list ELSE db[k]]

\* load_global_projects(): the content of projects.json
LoadGlobalProjects(persisted) == persisted

\* save_global_projects(db): the content of projects.json afterwards
SaveGlobalProjects(persisted, db) == db

\* load_global_projects(ephemeral): no project in ephemeral mode
LoadProjects(persisted, ephemeral) ==
  IF ephemeral THEN EmptyDb ELSE LoadGlobalProjects(persisted)

\* save_global_projects(db, ephemeral): nothing is written in ephemeral mode
SaveProjects(persisted, db, ephemeral) ==
  IF ephemeral THEN persisted ELSE SaveGlobalProjects(persisted, db)

\* number of Codemarks in the projects in names
RECURSIVE SizeOf(_, _)
SizeOf(db, names) ==
  IF names = {} THEN 0
  ELSE LET k == CHOOSE x \in names : TRUE
       IN  Len(db[k]) + SizeOf(db, names \ {k})

StoreSize(db) == SizeOf(db, DOMAIN db)

\* ------------------------------------------------------- the store on disk
\* projects.json is a sequence of tokens: the braces of the document, the key
\* of a project, one stored Codemark, or bytes that are not UTF-8
Open == [t |-> "{"]
Close == [t |-> "}"]
Key(name) == [t |-> "key", name |-> name]
Item(codemark) == [t |-> "codemark", value |-> codemark]
NotUtf8 == [t |-> "not utf-8"]

\* projects_path.exists() is false
Missing == <<[t |-> "missing"]>>

\* the order in which the keys of the map are written
KeyOrder == <<"p", "q">>

\* the Codemarks of one project as tokens
Items(codemarks) == [i \in 1..Len(codemarks) |-> Item(codemarks[i])]

\* serde_json::to_string_pretty(projects_db), the projects order[i..]
RECURSIVE SerializeFrom(_, _, _)
SerializeFrom(db, order, i) ==
  IF i > Len(order) THEN <<>>
  ELSE (IF order[i] \in DOMAIN db
        THEN <<Key(order[i])>> \o Items(db[order[i]])
        ELSE <<>>)
       \o SerializeFrom(db, order, i + 1)

Serialize(db) == <<Open>> \o SerializeFrom(db, KeyOrder, 1) \o <<Close>>

\* fs::read_to_string succeeds: the file holds text
IsText(doc) == \A i \in 1..Len(doc) : doc[i] # NotUtf8

\* every text is taken for a document
ValidJsonAlways(doc) == TRUE

\* serde_json::from_str succeeds: the text is one complete document
ValidJson(doc) ==
  /\ Len(doc) >= 2
  /\ doc[1] = Open
  /\ doc[Len(doc)] = Close
  /\ \A i \in 2..(Len(doc) - 1) : doc[i].t \in {"key", "codemark"}
  /\ Len(doc) > 2 => doc[2].t = "key"

\* the map read from the tokens doc[i..]: a Codemark goes to the last key read
RECURSIVE ParseFrom(_, _, _, _)
ParseFrom(doc, i, db, key) ==
  IF i > Len(doc) THEN db
  ELSE IF doc[i].t = "key"
       THEN ParseFrom(doc, i + 1, Insert(db, doc[i].name, <<>>), doc[i].name)
       ELSE IF doc[i].t = "codemark" /\ key \in DOMAIN db
            THEN ParseFrom(doc, i + 1,
                           [db EXCEPT ![key] = Append(@, doc[i].value)], key)
            ELSE ParseFrom(doc, i + 1, db, key)

\* load_global_projects() on the file: the default when the file is missing,
\* is not text or is not a document
LoadFile(disk) ==
  IF disk # Missing /\ IsText(disk) /\ ValidJson(disk)
  THEN ParseFrom(disk, 1, EmptyDb, "")
  ELSE EmptyDb

\* File::create of fs::write: the file exists and is empty
CreateFile(disk) == <<>>

\* write_all of fs::write: the bytes go to the start of the file, over what
\* is there; what lies beyond them stays
WriteAll(disk, doc) ==
  [i \in 1..(IF Len(disk) > Len(doc) THEN Len(disk) ELSE Len(doc)) |->
     IF i <= Len(doc) THEN doc[i] ELSE disk[i]]

\* ------------------------------------------------------------ scan_directory
\* the Codemarks of lines i.. of one file, in line order
RECURSIVE ScanLines(_, _, _)
ScanLines(relative_path, content, i) ==
  IF i > Len(content) THEN <<>>
  ELSE IF IsMatch(content[i])
       THEN <<Codemark(relative_path, i, content[i], FALSE)>>
            \o ScanLines(relative_path, content, i + 1)
       ELSE ScanLines(relative_path, content, i + 1)

\* current_codemarks: the walk over the files order[i..], each read line by line
RECURSIVE WalkDirectory(_, _, _, _, _)
WalkDirectory(directory, canonical_dir, dir, order, i) ==
  IF i > Len(order) THEN <<>>
  ELSE ScanLines(RelativePath(directory \o <<order[i]>>, canonical_dir),
                 dir[order[i]], 1)
       \o WalkDirectory(directory, canonical_dir, dir, order, i + 1)

\* the marking loop left out: the stored entries keep their resolved flags
MarkNoneResolved(existing) == existing

\* for codemark in existing_codemarks.iter_mut() { codemark.resolved = true }
MarkAllResolved(existing) ==
  [i \in 1..Len(existing) |-> [existing[i] EXCEPT !.resolved = TRUE]]

\* index of the first existing entry with the file and description of current,
\* 0 when there is none
FirstMatch(existing, current) ==
  IF \E i \in 1..Len(existing) :
       /\ existing[i].file = current.file
       /\ existing[i].description = current.description
  THEN CHOOSE i \in 1..Len(existing) :
         /\ existing[i].file = current.file
         /\ existing[i].description = current.description
         /\ \A j \in 1..(i - 1) :
              ~(/\ existing[j].file = current.file
                /\ existing[j].description = current.description)
  ELSE 0

\* the break left out: every entry with the file and description is updated
ReconcileAllMatches(existing, current) ==
  IF FirstMatch(existing, current) # 0
  THEN [i \in 1..Len(existing) |->
          IF /\ existing[i].file = current.file
             /\ existing[i].description = current.description
          THEN [existing[i] EXCEPT !.resolved = FALSE,
                                   !.line_number = current.line_number]
          ELSE existing[i]]
  ELSE Append(existing, current)

\* the search left out: every fresh annotation is pushed
ReconcileAppend(existing, current) == Append(existing, current)

\* the update in place left out: a matched entry is taken out and pushed anew
ReconcileMoveToEnd(existing, current) ==
  LET i == FirstMatch(existing, current)
  IN  IF i # 0
      THEN Append(SubSeq(existing, 1, i - 1)
                    \o SubSeq(existing, i + 1, Len(existing)),
                  current)
      ELSE Append(existing, current)

\* one iteration of the loop over current_codemarks
ReconcileOne(existing, current) ==
  LET i == FirstMatch(existing, current)
  IN  IF i # 0
      THEN [existing EXCEPT ![i].resolved = FALSE,
                            ![i].line_number = current.line_number]
      ELSE Append(existing, current)

\* the loop over current_codemarks[i..], on a project already stored
RECURSIVE Reconcile(_, _, _)
Reconcile(existing, current_codemarks, i) ==
  IF i > Len(current_codemarks) THEN existing
  ELSE Reconcile(ReconcileOne(existing, current_codemarks[i]),
                 current_codemarks, i + 1)

\* number of entries of list with resolved = false
RECURSIVE Unresolved(_, _)
Unresolved(list, i) ==
  IF i > Len(list) THEN 0
  ELSE (IF list[i].resolved THEN 0 ELSE 1) + Unresolved(list, i + 1)

\* total_count: the unresolved entries of the projects in names
RECURSIVE TotalCount(_, _)
TotalCount(db, names) ==
  IF names = {} THEN 0
  ELSE LET k == CHOOSE x \in names : TRUE
       IN  Unresolved(db[k], 1) + TotalCount(db, names \ {k})

\* the load with the flag left out: the persisted store is reconciled
ScanResultPersisted(persisted, project_name, current_codemarks, ephemeral) ==
  LET db0 == LoadProjects(persisted, FALSE)
      db1 == IF project_name \in DOMAIN db0
             THEN [db0 EXCEPT ![project_name] = MarkAllResolved(@)]
             ELSE db0
  IN  IF project_name \in DOMAIN db1
      THEN [db1 EXCEPT ![project_name] = Reconcile(@, current_codemarks, 1)]
      ELSE Insert(db1, project_name, current_codemarks)

\* projects_db when scan_directory saves it
ScanResult(persisted, project_name, current_codemarks, ephemeral) ==
  LET db0 == LoadProjects(persisted, ephemeral)
      db1 == IF project_name \in DOMAIN db0
             THEN [db0 EXCEPT ![project_name] = MarkAllResolved(@)]
             ELSE db0
  IN  IF project_name \in DOMAIN db1
      THEN [db1 EXCEPT ![project_name] = Reconcile(@, current_codemarks, 1)]
      ELSE Insert(db1, project_name, current_codemarks)

\* the count without its filter: resolved entries are counted too
CountAllEntries(db) == StoreSize(db)

\* Ok(total_count) of scan_directory
ScanCount(db) == TotalCount(db, DOMAIN db)

\* ------------------------------------------------------ process_changed_file
\* scan_file: the Codemarks of lines i.. of the changed file
RECURSIVE ScanFile(_, _, _)
ScanFile(file_path, content, i) ==
  IF i > Len(content) THEN <<>>
  ELSE IF IsMatch(content[i])
       THEN <<Codemark(file_path, i, Capture1(content[i]), FALSE)>>
            \o ScanFile(file_path, content, i + 1)
       ELSE ScanFile(file_path, content, i + 1)

\* the retain left out: the entries of the changed file stay
RetainAll(project_codemarks, file_path) == project_codemarks

\* the retain that keeps nothing: the entries of the other files go too
RetainNothing(project_codemarks, file_path) == <<>>

\* project_codemarks.retain(|cm| cm.file != file_path)
Retain(project_codemarks, file_path) ==
  SelectSeq(project_codemarks, LAMBDA cm : cm.file # file_path)

\* what the changed path is found to be, in the order of the checks
FileStates == {"ignored", "deleted", "binary", "text"}

\* the skip tests left out but the first: only an ignored path is skipped
SkippedIfIgnored(state) == state = "ignored"

\* the early returns of process_changed_file: the path is ignored, the file
\* does not exist, or it cannot be read as text
Skipped(state) == state # "text"

\* the test of the flag left out: the store is accessed in ephemeral mode too
TouchesStoreAlways(ephemeral) == TRUE

\* if !ephemeral { .. }: whether process_changed_file loads and saves the store
TouchesStore(ephemeral) == ~ephemeral

\* the persisted store after process_changed_file
WatchResult(persisted, file_path, state, content, project_name, ephemeral) ==
  LET codemarks == ScanFile(file_path, content, 1)
      db0 == LoadProjects(persisted, FALSE)
  IN  IF Skipped(state) \/ ~TouchesStore(ephemeral) THEN persisted
      ELSE IF codemarks = <<>>
      THEN IF project_name \in DOMAIN db0
           THEN LET db1 == [db0 EXCEPT ![project_name] = Retain(@, file_path)]
                IN  IF Len(db0[project_name]) # Len(db1[project_name])
                    THEN SaveProjects(persisted, db1, FALSE)
                    ELSE persisted
           ELSE persisted
      ELSE LET db1 == IF project_name \in DOMAIN db0
                      THEN [db0 EXCEPT ![project_name] = Retain(@, file_path)]
                      ELSE Insert(db0, project_name, <<>>)
               db2 == [db1 EXCEPT ![project_name] = @ \o codemarks]
           IN  SaveProjects(persisted, db2, FALSE)

\* whether process_changed_file reaches save_global_projects, having loaded db0
WatchSaves(db0, file_path, state, content, project_name, ephemeral) ==
  /\ ~Skipped(state)
  /\ TouchesStore(ephemeral)
  /\ \/ ScanFile(file_path, content, 1) # <<>>
     \/ /\ project_name \in DOMAIN db0
        /\ Len(Retain(db0[project_name], file_path)) # Len(db0[project_name])

\* Ok(n) of process_changed_file
WatchCount(file_path, state, content) ==
  IF state # "text" THEN 0 ELSE Len(ScanFile(file_path, content, 1))

\* ------------------------------------------------------------ clean_resolved
\* codemarks.iter().filter(|codemark| !codemark.resolved).cloned().collect()
\* the filter that drops the first resolved entry only
RECURSIVE UnresolvedButFirst(_)
UnresolvedButFirst(codemarks) ==
  IF codemarks = <<>> THEN <<>>
  ELSE IF Head(codemarks).resolved THEN Tail(codemarks)
  ELSE <<Head(codemarks)>> \o UnresolvedButFirst(Tail(codemarks))

UnresolvedCodemarks(codemarks) ==
  SelectSeq(codemarks, LAMBDA codemark : ~codemark.resolved)

\* the --project filter ignored: every project is filtered
CoveredAlways(project_name, project_filter) == TRUE

\* whether the loop filters project_name: no --project, or the one it names
Covered(project_name, project_filter) ==
  project_filter = NoFilter \/ project_name = project_filter

\* cleaned_db
CleanedDb(db, project_filter) ==
  LET kept == {k \in DOMAIN db :
                 \/ ~Covered(k, project_filter)
                 \/ UnresolvedCodemarks(db[k]) # <<>>}
  IN  [k \in kept |-> IF Covered(k, project_filter)
                      THEN UnresolvedCodemarks(db[k])
                      ELSE db[k]]

\* total_removed: the sum of removed_count over the projects in names
RECURSIVE TotalRemoved(_, _, _)
TotalRemoved(db, project_filter, names) ==
  IF names = {} THEN 0
  ELSE LET k == CHOOSE x \in names : TRUE
           removed_count ==
             IF Covered(k, project_filter)
             THEN Len(db[k]) - Len(UnresolvedCodemarks(db[k]))
             ELSE 0
       IN  removed_count + TotalRemoved(db, project_filter, names \ {k})

\* the save without the total_removed test: every clean without --dry-run saves
CleanSavesAlways(db, dry_run, project_filter) == ~dry_run

\* the save without the dry_run test: a dry run that would remove saves
CleanSavesDryRun(db, dry_run, project_filter) ==
  TotalRemoved(db, project_filter, DOMAIN db) # 0

\* whether clean_resolved reaches save_global_projects
CleanSaves(db, dry_run, project_filter) ==
  ~dry_run /\ TotalRemoved(db, project_filter, DOMAIN db) # 0

\* the store file after clean_resolved
CleanResolved(file, dry_run, project_filter) ==
  LET db == LoadGlobalProjects(file)
  IN  IF CleanSaves(db, dry_run, project_filter)
      THEN SaveGlobalProjects(file, CleanedDb(db, project_filter))
      ELSE file

\* ----------------------------------------------------------- watch_directory
\* the watched project, its directory and the files below it that events name
WatchedProject == "p"
WatchedDir == Canonical(WatchedProject)
WatchedFiles == {WatchedDir \o <<"a.rs">>, WatchedDir \o <<"b.rs">>}

\* the paths one event may carry
EventPaths ==
  {<<f>> : f \in WatchedFiles \cup {WatchedDir}}
    \cup {<<f, g>> : f \in {WatchedDir \o <<"a.rs">>}, g \in WatchedFiles}

\* what a changed file holds when the loop reads it
WatchedContents == {<<>>, <<"// TODO: fix X">>}

\* what arrives on the channel: Ok(Event) of a kind that is processed, Ok(Event)
\* of another kind, or Err
EventKinds == {"modify", "access", "error"}

\* the values of --debounce, in ticks of the clock
DebounceChoices == {1, 2}

\* path.is_dir()
IsDir(path) == path = WatchedDir

\* the newest message is taken instead of the oldest
RecvNewest(channel) == channel[Len(channel)]

\* rx.recv(): the oldest message of the channel
Recv(channel) == Head(channel)

\* the debounce test: the path was processed less than debounce ago
Debounced(recent, path, now, debounce) ==
  path \in DOMAIN recent /\ now - recent[path] < debounce

\* recent_events.insert(path, now)
InsertEvent(recent, path, now) ==
  [p \in DOMAIN recent \cup {path} |-> IF p = path THEN now ELSE recent[p]]

\* the pruning that empties the map
RetainNoEvents(recent, now, debounce) == [p \in {} |-> 0]

\* recent_events.retain(|_, time| now.duration_since(time) < debounce * 2)
RetainEvents(recent, now, debounce) ==
  [p \in {q \in DOMAIN recent : now - recent[q] < debounce * 2} |-> recent[p]]

\* --------------------------------------------------- patterns and main()
\* default_annotation_pattern()
DefaultAnnotationPattern == "<default>"

\* the patterns a user may supply: the default one, one without a capture
\* group, and one that is not a regular expression
Patterns == {DefaultAnnotationPattern, "TODO", "[invalid regex("}

\* Regex::new(pattern).is_ok()
IsRegex(pattern) == pattern # "[invalid regex("

\* a line that is not valid UTF-8: reader.lines() yields Err for it
BadLine == "<invalid utf-8>"

\* whether reader.lines() yields Ok for the line
Decodes(line) == line # BadLine

\* a file that File::open refuses
Unopenable == <<"<unopenable>">>

\* fs::File::open(path).is_ok() on a file of this content
Opens(content) == content # Unopenable

\* Regex::is_match of a compiled pattern on one line
IsMatchOf(pattern, line) ==
  CASE pattern = DefaultAnnotationPattern -> IsMatch(line)
    [] pattern = "TODO" -> line \in {"// TODO: fix X", "TODO later"}
    [] OTHER -> FALSE

\* whether captures.get(1) is Some on a line the pattern matches
HasCapture1(pattern) == pattern = DefaultAnnotationPattern

\* the loop stopping at the first line that does not decode
RECURSIVE ScanLinesWhileOk(_, _, _, _)
ScanLinesWhileOk(codemark_regex, relative_path, content, i) ==
  IF i > Len(content) \/ ~Decodes(content[i]) THEN <<>>
  ELSE IF IsMatchOf(codemark_regex, content[i])
       THEN <<Codemark(relative_path, i, content[i], FALSE)>>
            \o ScanLinesWhileOk(codemark_regex, relative_path, content, i + 1)
       ELSE ScanLinesWhileOk(codemark_regex, relative_path, content, i + 1)

\* scan_directory's loop over reader.lines().enumerate() from line i on, with
\* the compiled pattern: a line that does not decode is passed over
RECURSIVE ScanLinesOf(_, _, _, _)
ScanLinesOf(codemark_regex, relative_path, content, i) ==
  IF i > Len(content) THEN <<>>
  ELSE IF Decodes(content[i]) /\ IsMatchOf(codemark_regex, content[i])
       THEN <<Codemark(relative_path, i, content[i], FALSE)>>
            \o ScanLinesOf(codemark_regex, relative_path, content, i + 1)
       ELSE ScanLinesOf(codemark_regex, relative_path, content, i + 1)

\* scan_directory's walk over the files order[i..] with the compiled pattern:
\* a file that does not open is passed over
RECURSIVE WalkDirectoryOf(_, _, _, _, _, _)
WalkDirectoryOf(codemark_regex, directory, canonical_dir, dir, order, i) ==
  IF i > Len(order) THEN <<>>
  ELSE (IF Opens(dir[order[i]])
        THEN ScanLinesOf(codemark_regex,
                         RelativePath(directory \o <<order[i]>>, canonical_dir),
                         dir[order[i]], 1)
        ELSE <<>>)
       \o WalkDirectoryOf(codemark_regex, directory, canonical_dir, dir, order,
                          i + 1)

\* scan_file with the compiled pattern: a Codemark for every line with a
\* first capture group
RECURSIVE ScanFileOf(_, _, _, _)
ScanFileOf(annotation_pattern, file_path, content, i) ==
  IF i > Len(content) THEN <<>>
  ELSE IF /\ IsMatchOf(annotation_pattern, content[i])
          /\ HasCapture1(annotation_pattern)
       THEN <<Codemark(file_path, i, Capture1(content[i]), FALSE)>>
            \o ScanFileOf(annotation_pattern, file_path, content, i + 1)
       ELSE ScanFileOf(annotation_pattern, file_path, content, i + 1)

\* the persisted store after process_changed_file with the compiled pattern
WatchResultOf(annotation_pattern, persisted, file_path, state, content, project_name) ==
  LET codemarks == ScanFileOf(annotation_pattern, file_path, content, 1)
      db0 == LoadGlobalProjects(persisted)
  IN  IF Skipped(state) THEN persisted
      ELSE IF codemarks = <<>>
      THEN IF project_name \in DOMAIN db0
           THEN LET db1 == [db0 EXCEPT ![project_name] = Retain(@, file_path)]
                IN  IF Len(db0[project_name]) # Len(db1[project_name])
                    THEN SaveGlobalProjects(persisted, db1)
                    ELSE persisted
           ELSE persisted
      ELSE LET db1 == IF project_name \in DOMAIN db0
                      THEN [db0 EXCEPT ![project_name] = Retain(@, file_path)]
                      ELSE Insert(db0, project_name, <<>>)
               db2 == [db1 EXCEPT ![project_name] = @ \o codemarks]
           IN  SaveGlobalProjects(persisted, db2)

\* whether process_changed_file with the compiled pattern reaches
\* save_global_projects, having loaded db0
WatchSavesOf(annotation_pattern, db0, file_path, state, content, project_name) ==
  /\ ~Skipped(state)
  /\ \/ ScanFileOf(annotation_pattern, file_path, content, 1) # <<>>
     \/ /\ project_name \in DOMAIN db0
        /\ Len(Retain(db0[project_name], file_path)) # Len(db0[project_name])

\* ------------------------------------------------------------------- state
VARIABLES
  store,   \* the persisted projects database (projects.json)
  pre,     \* the persisted projects database before the last operation
  last,    \* the last operation: its arguments, what it found, what it returned
  rx,                 \* the channel of the watch loop: the events not yet taken
  clock,              \* what Instant::now() returns
  recent_events,      \* the last-seen map of the watch loop
  debounce_duration,  \* the debounce interval of the watch loop
  pc,                 \* where the watch loop is: "recv", "paths", "prune", "done"
  paths,              \* the paths of the event in hand still to be handled
  sent,               \* number of events sent to the channel so far
  taken,              \* the ids of the events taken from the channel, in order
  calls,              \* the calls of process_changed_file made, in order
  files,              \* what the watched files hold
  disk,    \* the content of the file projects.json
  procs,   \* the invocations of the tool that run against the file
  saves,   \* the saves that have written their document, in order
  runs,    \* number of invocations started so far
  config_json,   \* the file ~/.codemarks/config.json: its pattern, or NoFile
  projects_json  \* whether the file ~/.codemarks/projects.json exists

storeVars == <<store, pre, last>>
diskVars == <<disk, procs, saves, runs>>
watchVars == <<rx, clock, recent_events, debounce_duration, pc, paths, sent,
               taken, calls, files>>
homeVars == <<config_json, projects_json>>
vars == <<storeVars, watchVars, diskVars, homeVars>>

\* a file that does not exist
NoFile == "<no file>"

\* the files of ~/.codemarks are not looked at
NoHome ==
  /\ config_json = NoFile
  /\ projects_json = FALSE

\* the invocations that may run at the same time
Procs == {1, 2}

\* an invocation that has not started, or has ended
Idle == [pc |-> "idle"]

\* the file level is not looked at
NoDisk ==
  /\ disk = Missing
  /\ procs = [i \in Procs |-> Idle]
  /\ saves = <<>>
  /\ runs = 0

\* no watch loop is running
NoWatch ==
  /\ rx = <<>>
  /\ clock = 0
  /\ recent_events = [p \in {} |-> 0]
  /\ debounce_duration = 0
  /\ pc = "done"
  /\ paths = <<>>
  /\ sent = 0
  /\ taken = <<>>
  /\ calls = <<>>
  /\ files = [f \in {} |-> <<>>]

Init ==
  /\ store = EmptyDb
  /\ pre = EmptyDb
  /\ last = [op |-> "init"]
  /\ NoWatch
  /\ NoDisk
  /\ NoHome

\* codemarks scan --directory directory, on directory k whose files are dir
Scan(k, directory, dir, order, ephemeral) ==
  LET current_codemarks == WalkDirectory(directory, Canonical(k), dir, order, 1)
      db == ScanResult(store, k, current_codemarks, ephemeral)
  IN  /\ StoreSize(db) <= MaxEntries
      /\ store' = SaveProjects(store, db, ephemeral)
      /\ pre' = store
      /\ last' = [op |-> "scan", project |-> k, ephemeral |-> ephemeral,
                  current |-> current_codemarks, ret |-> ScanCount(db)]
      /\ UNCHANGED <<watchVars, diskVars, homeVars>>

\* process_changed_file on the persisted store
ProcessChangedFile(project_name, file_path, state, content, ephemeral) ==
  LET db == WatchResult(store, file_path, state, content, project_name,
                        ephemeral)
  IN  /\ StoreSize(db) <= MaxEntries
      /\ store' = db
      /\ pre' = store
      /\ last' = [op |-> "watch", project |-> project_name,
                  ephemeral |-> ephemeral, file_path |-> file_path,
                  state |-> state,
                  current |-> IF state = "text"
                              THEN ScanFile(file_path, content, 1) ELSE <<>>,
                  ret |-> WatchCount(file_path, state, content)]

\* one file event of codemarks watch on the project project_name
Watch(project_name, file_path, state, content, ephemeral) ==
  /\ ProcessChangedFile(project_name, file_path, state, content, ephemeral)
  /\ UNCHANGED <<watchVars, diskVars, homeVars>>

\* codemarks clean [--dry-run] [--project project_filter]
Clean(dry_run, project_filter) ==
  LET db == LoadGlobalProjects(store)
  IN  /\ store' = CleanResolved(store, dry_run, project_filter)
      /\ pre' = store
      /\ last' = [op |-> "clean", dry_run |-> dry_run,
                  project_filter |-> project_filter,
                  removed |-> TotalRemoved(db, project_filter, DOMAIN db)]
      /\ UNCHANGED <<watchVars, diskVars, homeVars>>

Next ==
  \/ \E k \in ProjectNames, dir \in Directories, order \in WalkOrders :
       \E directory \in DirArgs(k) : Scan(k, directory, dir, order, FALSE)
  \/ \E k \in ProjectNames, f \in FileNames, state \in FileStates :
       \E content \in IF state = "text" THEN Contents ELSE {<<>>} :
         Watch(k, Canonical(k) \o <<f>>, state, content, FALSE)
  \/ \E dry_run \in BOOLEAN, project_filter \in ProjectNames \cup {NoFilter} :
       Clean(dry_run, project_filter)

Spec == Init /\ [][Next]_vars

\* ------------------------------------------- with and without --ephemeral
\* codemarks list: the store is printed, nothing is changed
List(ephemeral) ==
  /\ store' = store
  /\ pre' = store
  /\ last' = [op |-> "list", ephemeral |-> ephemeral,
              shown |-> IF ephemeral THEN EmptyDb ELSE LoadProjects(store, FALSE)]
  /\ UNCHANGED <<watchVars, diskVars, homeVars>>

\* scans that persist, and scans, file updates and listings that are
\* ephemeral
EphemeralNext ==
  \/ \E k \in ProjectNames, dir \in Directories, order \in WalkOrders :
       \E directory \in DirArgs(k), ephemeral \in BOOLEAN :
         Scan(k, directory, dir, order, ephemeral)
  \/ \E k \in ProjectNames, f \in FileNames, state \in FileStates :
       \E content \in IF state = "text" THEN Contents ELSE {<<>>} :
         Watch(k, Canonical(k) \o <<f>>, state, content, TRUE)
  \/ \E ephemeral \in BOOLEAN : List(ephemeral)

EphemeralSpec == Init /\ [][EphemeralNext]_vars

\* ------------------------------------------------------ the watch loop alone
\* codemarks watch --directory /p --debounce debounce: the loop is at rx.recv()
WatchInit ==
  /\ store = EmptyDb
  /\ pre = EmptyDb
  /\ last = [op |-> "init"]
  /\ rx = <<>>
  /\ clock = 0
  /\ recent_events = [p \in {} |-> 0]
  /\ debounce_duration \in DebounceChoices
  /\ pc = "recv"
  /\ paths = <<>>
  /\ sent = 0
  /\ taken = <<>>
  /\ calls = <<>>
  /\ files = [f \in WatchedFiles |-> <<>>]
  /\ NoDisk
  /\ NoHome

\* time passes
Tick ==
  /\ clock < MaxTime
  /\ clock' = clock + 1
  /\ UNCHANGED <<storeVars, diskVars, homeVars>>
  /\ UNCHANGED <<rx, recent_events, debounce_duration, pc, paths,
                 sent, taken, calls, files>>

\* the watcher thread sends an event to the channel
Notify(kind, event_paths) ==
  /\ sent < MaxEvents
  /\ pc # "done"
  /\ sent' = sent + 1
  /\ rx' = Append(rx, [id |-> sent + 1, kind |-> kind, paths |-> event_paths])
  /\ UNCHANGED <<storeVars, diskVars, homeVars>>
  /\ UNCHANGED <<clock, recent_events, debounce_duration, pc, paths,
                 taken, calls, files>>

\* match rx.recv(): the loop takes a message; an event of a processed kind is
\* handled path by path, any other message goes straight to the pruning
TakeEvent ==
  /\ pc = "recv"
  /\ rx # <<>>
  /\ LET event == Recv(rx)
     IN  /\ rx' = SelectSeq(rx, LAMBDA e : e.id # event.id)
         /\ taken' = Append(taken, event.id)
         /\ paths' = IF event.kind = "modify" THEN event.paths ELSE <<>>
         /\ pc' = IF event.kind = "modify" THEN "paths" ELSE "prune"
  /\ UNCHANGED <<storeVars, diskVars, homeVars>>
  /\ UNCHANGED <<clock, recent_events, debounce_duration, sent,
                 calls, files>>

\* what follows the handling of one path of the event in hand
AfterPath ==
  /\ paths' = Tail(paths)
  /\ pc' = IF Tail(paths) = <<>> THEN "prune" ELSE "paths"

\* for path in paths: a directory, or a path the walker does not yield
SkipPath(should_process) ==
  /\ pc = "paths"
  /\ IsDir(Head(paths)) \/ ~should_process
  /\ AfterPath
  /\ UNCHANGED <<storeVars, diskVars, homeVars>>
  /\ UNCHANGED <<rx, clock, recent_events, debounce_duration, sent,
                 taken, calls, files>>

\* for path in paths: the path was processed less than debounce ago
DebouncePath ==
  /\ pc = "paths"
  /\ ~IsDir(Head(paths))
  /\ Debounced(recent_events, Head(paths), clock, debounce_duration)
  /\ AfterPath
  /\ UNCHANGED <<storeVars, diskVars, homeVars>>
  /\ UNCHANGED <<rx, clock, recent_events, debounce_duration, sent,
                 taken, calls, files>>

\* for path in paths: the path is noted in the map and process_changed_file
\* is called for it, on a file found in the given state
ProcessPath(state, content) ==
  /\ pc = "paths"
  /\ ProcessChangedFile(WatchedProject, Head(paths), state, content, FALSE)
  /\ ~IsDir(Head(paths))
  /\ ~Debounced(recent_events, Head(paths), clock, debounce_duration)
  /\ recent_events' = InsertEvent(recent_events, Head(paths), clock)
  /\ calls' = Append(calls, [path |-> Head(paths), at |-> clock,
                             event |-> taken[Len(taken)]])
  /\ AfterPath
  /\ UNCHANGED <<diskVars, homeVars, rx, clock, debounce_duration, sent, taken,
               files>>

\* the end of one turn of the loop: the old entries leave the map
Prune ==
  /\ pc = "prune"
  /\ recent_events' = RetainEvents(recent_events, clock, debounce_duration)
  /\ pc' = "recv"
  /\ UNCHANGED <<storeVars, diskVars, homeVars>>
  /\ UNCHANGED <<rx, clock, debounce_duration, paths, sent, taken,
                 calls, files>>

WatchNext ==
  \/ Tick
  \/ \E event_paths \in EventPaths : Notify("modify", event_paths)
  \/ \E kind \in EventKinds \ {"modify"} : Notify(kind, <<>>)
  \/ TakeEvent
  \/ \E should_process \in BOOLEAN : SkipPath(should_process)
  \/ DebouncePath
  \/ \E state \in FileStates :
       \E content \in IF state = "text" THEN WatchedContents ELSE {<<>>} :
         ProcessPath(state, content)
  \/ Prune

WatchSpec == WatchInit /\ [][WatchNext]_vars

\* ------------------------------------------ the watch loop and the writes
\* a program writes content to a watched file; the watcher thread sends the
\* event of the write to the channel
WriteFile(path, content) ==
  /\ sent < MaxEvents
  /\ pc # "done"
  /\ files' = [files EXCEPT ![path] = content]
  /\ sent' = sent + 1
  /\ rx' = Append(rx, [id |-> sent + 1, kind |-> "modify", paths |-> <<path>>])
  /\ UNCHANGED <<storeVars, diskVars, homeVars>>
  /\ UNCHANGED <<clock, recent_events, debounce_duration, pc, paths,
                 taken, calls>>

\* process_changed_file reads the file as it is when the loop reaches it
ProcessWritten == ProcessPath("text", files[Head(paths)])

\* the turns of the loop: what the thread of watch_directory does next
LoopNext == TakeEvent \/ DebouncePath \/ ProcessWritten \/ Prune

QuietNext ==
  \/ Tick
  \/ \E path \in WatchedFiles, content \in WatchedContents :
       WriteFile(path, content)
  \/ LoopNext

QuietSpec == WatchInit /\ [][QuietNext]_vars

\* the thread of the loop runs whenever it can, and time passes; nothing
\* makes a program write
QuietFairSpec == QuietSpec /\ WF_vars(LoopNext) /\ WF_vars(Tick)

\* ------------------------------------ invocations that share the store file
\* a store file cut short: the document of one stored Codemark without its end
Truncated ==
  <<Open, Key("p"), Item(Codemark(<<"a.rs">>, 1, "// TODO: fix X", FALSE))>>

\* what projects.json may be when the first invocation starts
InitialFiles == {Missing, <<NotUtf8>>, Truncated, Serialize(EmptyDb)}

\* the commands that load and save the store
Commands == {"scan", "watch"}

DiskInit ==
  /\ store = EmptyDb
  /\ pre = EmptyDb
  /\ last = [op |-> "init"]
  /\ NoWatch
  /\ NoHome
  /\ disk \in InitialFiles
  /\ procs = [i \in Procs |-> Idle]
  /\ saves = <<>>
  /\ runs = 0

\* what invocation i finds in the one file of directory k, which holds content
Found(op, k, content) ==
  IF op = "scan"
  THEN WalkDirectory(Canonical(k), Canonical(k),
                     [f \in FileNames |-> content], <<"a.rs">>, 1)
  ELSE ScanFile(Canonical(k) \o <<"a.rs">>, content, 1)

\* invocation i starts and loads the store: a scan of directory k, or the
\* watch handler for the file of k; the store it will save is worked out from
\* what it has loaded
Load(i, op, k, content) ==
  LET snapshot == LoadFile(disk)
      db == IF op = "scan"
            THEN ScanResult(snapshot, k, Found(op, k, content), FALSE)
            ELSE WatchResult(snapshot, Canonical(k) \o <<"a.rs">>, "text",
                             content, k, FALSE)
      writes == \/ op = "scan"
                \/ WatchSaves(snapshot, Canonical(k) \o <<"a.rs">>, "text",
                              content, k, FALSE)
  IN  /\ procs[i].pc \in {"idle", "killed"}
      /\ runs < MaxRuns
      /\ StoreSize(db) <= MaxEntries
      /\ runs' = runs + 1
      /\ procs' = [procs EXCEPT ![i] =
                     IF writes
                     THEN [pc |-> "loaded", op |-> op, project |-> k,
                           current |-> Found(op, k, content), read |-> disk,
                           snapshot |-> snapshot, db |-> db, old |-> <<>>,
                           written |-> Len(saves)]
                     ELSE Idle]
      /\ UNCHANGED <<storeVars, watchVars, homeVars, disk, saves>>

\* fs::write, first half: the file is created or emptied
Create(i) ==
  /\ procs[i].pc = "loaded"
  /\ disk' = CreateFile(disk)
  /\ procs' = [procs EXCEPT ![i].pc = "created", ![i].old = disk,
                            ![i].written = Len(saves)]
  /\ UNCHANGED <<storeVars, watchVars, homeVars, saves, runs>>

\* fs::write, second half: the document is written and the invocation ends
Write(i) ==
  /\ procs[i].pc = "created"
  /\ disk' = WriteAll(disk, Serialize(procs[i].db))
  /\ saves' = Append(saves, [procs[i] EXCEPT !.pc = "saved"])
  /\ procs' = [procs EXCEPT ![i] = Idle]
  /\ UNCHANGED <<storeVars, watchVars, homeVars, runs>>

\* the invocation is terminated where it is
Kill(i) ==
  /\ procs[i].pc \in {"loaded", "created"}
  /\ procs' = [procs EXCEPT ![i].pc = "killed",
                            ![i].old = IF procs[i].pc = "created"
                                       THEN procs[i].old ELSE disk,
                            ![i].written = IF procs[i].pc = "created"
                                           THEN procs[i].written
                                           ELSE Len(saves) + 1]
  /\ UNCHANGED <<storeVars, watchVars, homeVars, disk, saves, runs>>

DiskNext ==
  \/ \E i \in Procs, op \in Commands, k \in ProjectNames :
       \E content \in WatchedContents : Load(i, op, k, content)
  \/ \E i \in Procs : Create(i)
  \/ \E i \in Procs : Write(i)
  \/ \E i \in Procs : Kill(i)

DiskSpec == DiskInit /\ [][DiskNext]_vars

\* ------------------------------------------------ main(): whole invocations
\* what a command returns to main
Ok == "Ok"
Err == "Err"

\* the test for the file left out: config.json is written at every start
InitializedConfigOverwritten(home, file) ==
  IF home THEN DefaultAnnotationPattern ELSE file

\* config.json after initialize_codemarks: a missing file is created with the
\* default pattern
InitializedConfig(home, file) ==
  IF home /\ file = NoFile THEN DefaultAnnotationPattern ELSE file

\* whether projects.json exists after initialize_codemarks: a missing file is
\* created with no project
InitializedProjects(home, exists) == home \/ exists

\* load_global_config().annotation_pattern: the default when the path or the
\* file cannot be had
LoadGlobalConfig(home, file) ==
  IF home /\ file # NoFile THEN file ELSE DefaultAnnotationPattern

\* load_global_projects(): no project when the path or the file cannot be had
LoadStore(home, exists, persisted) ==
  IF home /\ exists THEN LoadGlobalProjects(persisted) ELSE EmptyDb

\* the checks left out: the walk is reached whatever the pattern and directory
WalkedAnyway(pattern, resolves) == TRUE

\* whether scan_directory gets past Regex::new(&config.annotation_pattern)?
\* and directory.canonicalize()? to the marking, the walk and the save
Walked(pattern, resolves) == IsRegex(pattern) /\ resolves

\* the status the process ends with after a command returned the result
ExitCode(result) == 0

\* what main has written to standard error: the warning of a failed
\* initialize_codemarks and the error a command returned
Stderr(home, result) ==
  (IF home THEN {} ELSE {"Warning: Failed to initialize codemarks"})
    \cup (IF result = Err THEN {"Error"} ELSE {})

\* the fields of last every invocation records
Invocation(op, home, result) ==
  [op |-> op, home |-> home, result |-> result, status |-> ExitCode(result),
   stderr |-> Stderr(home, result), config_before |-> config_json,
   projects_before |-> projects_json]

\* the files of ~/.codemarks a user may start with: config.json is written by
\* hand or by the tool
MainInit ==
  /\ store = EmptyDb
  /\ pre = EmptyDb
  /\ last = [op |-> "init"]
  /\ config_json \in {NoFile} \cup Patterns
  /\ projects_json \in BOOLEAN
  /\ NoWatch
  /\ NoDisk

\* codemarks scan --directory directory, with HOME set or not; the directory
\* resolves or not, and holds dir
MainScan(home, k, resolves, dir, order) ==
  LET pattern == LoadGlobalConfig(home, InitializedConfig(home, config_json))
      db0 == LoadStore(home, InitializedProjects(home, projects_json), store)
      current_codemarks ==
        WalkDirectoryOf(pattern, Canonical(k), Canonical(k), dir, order, 1)
      db == ScanResult(db0, k, current_codemarks, FALSE)
      walked == Walked(pattern, resolves)
      result == IF walked /\ home THEN Ok ELSE Err
  IN  /\ walked => StoreSize(db) <= MaxEntries
      /\ store' = IF result = Ok THEN SaveGlobalProjects(store, db) ELSE store
      /\ pre' = store
      /\ config_json' = InitializedConfig(home, config_json)
      /\ projects_json' = InitializedProjects(home, projects_json)
      /\ last' = Invocation("scan", home, result) @@
                 [project |-> k, pattern |-> pattern, resolves |-> resolves,
                  walked |-> walked, dir |-> dir,
                  current |-> IF walked THEN current_codemarks ELSE <<>>]
      /\ UNCHANGED <<watchVars, diskVars>>

\* codemarks list
MainList(home) ==
  /\ store' = store
  /\ pre' = store
  /\ config_json' = InitializedConfig(home, config_json)
  /\ projects_json' = InitializedProjects(home, projects_json)
  /\ last' = Invocation("list", home, Ok) @@
             [shown |-> LoadStore(home,
                                  InitializedProjects(home, projects_json),
                                  store)]
  /\ UNCHANGED <<watchVars, diskVars>>

\* the actions of codemarks config
ConfigActions == {"show", "set-pattern", "reset"}

\* what handle_config returns
ConfigResult(home, action, pattern) ==
  CASE action = "show" -> Ok
    [] action = "set-pattern" -> IF IsRegex(pattern) /\ home THEN Ok ELSE Err
    [] action = "reset" -> IF home THEN Ok ELSE Err

\* config.json after save_global_config was not guarded by Regex::new
HandleConfigUnchecked(home, file, action, pattern) ==
  CASE action = "show" -> file
    [] action = "set-pattern" -> IF home THEN pattern ELSE file
    [] action = "reset" -> IF home THEN DefaultAnnotationPattern ELSE file

\* config.json after handle_config
HandleConfig(home, file, action, pattern) ==
  CASE action = "show" -> file
    [] action = "set-pattern" ->
         IF IsRegex(pattern) /\ home THEN pattern ELSE file
    [] action = "reset" -> IF home THEN DefaultAnnotationPattern ELSE file

\* codemarks config show | set-pattern pattern | reset
MainConfig(home, action, pattern) ==
  /\ store' = store
  /\ pre' = store
  /\ config_json' = HandleConfig(home, InitializedConfig(home, config_json),
                                 action, pattern)
  /\ projects_json' = InitializedProjects(home, projects_json)
  /\ last' = Invocation("config", home, ConfigResult(home, action, pattern))
             @@ [action |-> action, supplied |-> pattern,
                 shown |-> LoadGlobalConfig(home,
                             InitializedConfig(home, config_json))]
  /\ UNCHANGED <<watchVars, diskVars>>

\* codemarks watch --directory /k, up to the end of the first file event it
\* handles, of the file file_path in the given state and with the content
MainWatch(home, k, file_path, state, content) ==
  LET pattern == LoadGlobalConfig(home, InitializedConfig(home, config_json))
      db0 == LoadStore(home, InitializedProjects(home, projects_json), store)
      db == WatchResultOf(pattern, db0, file_path, state, content, k)
      handled == IsRegex(pattern)
      saves_it == handled /\ WatchSavesOf(pattern, db0, file_path, state,
                                         content, k)
  IN  /\ saves_it => StoreSize(db) <= MaxEntries
      /\ store' = IF saves_it /\ home THEN db ELSE store
      /\ pre' = store
      /\ config_json' = InitializedConfig(home, config_json)
      /\ projects_json' = InitializedProjects(home, projects_json)
      /\ last' = Invocation("watch", home, IF handled THEN Ok ELSE Err) @@
                 [project |-> k, pattern |-> pattern, file_path |-> file_path,
                  state |-> state, handled |-> handled,
                  event_failed |-> saves_it /\ ~home, content |-> content,
                  ret |-> IF handled /\ ~Skipped(state) /\ ~(saves_it /\ ~home)
                          THEN Len(ScanFileOf(pattern, file_path, content, 1))
                          ELSE 0]
      /\ UNCHANGED <<watchVars, diskVars>>

\* codemarks clean [--dry-run] [--project project_filter]
MainClean(home, dry_run, project_filter) ==
  LET db == LoadStore(home, InitializedProjects(home, projects_json), store)
      saves_it == CleanSaves(db, dry_run, project_filter)
      result == IF saves_it /\ ~home THEN Err ELSE Ok
  IN  /\ store' = IF saves_it /\ home
                  THEN SaveGlobalProjects(store, CleanedDb(db, project_filter))
                  ELSE store
      /\ pre' = store
      /\ config_json' = InitializedConfig(home, config_json)
      /\ projects_json' = InitializedProjects(home, projects_json)
      /\ last' = Invocation("clean", home, result) @@
                 [dry_run |-> dry_run, project_filter |-> project_filter]
      /\ UNCHANGED <<watchVars, diskVars>>

\* the user writes config.json by hand: any pattern, valid or not
EditConfig(pattern) ==
  /\ config_json' = pattern
  /\ pre' = store
  /\ last' = [op |-> "edit", supplied |-> pattern]
  /\ UNCHANGED <<store, projects_json, watchVars, diskVars>>

\* the directory of the invocations
MainProject == "p"

\* the contents of its file: "TODO later" is matched by the pattern TODO and
\* not by the default pattern
PatternContents ==
  {<<>>, <<"// TODO: fix X">>, <<"TODO later">>,
   <<"TODO later", "// TODO: fix X">>}

\* invocations of the five commands that touch ~/.codemarks, one at a time,
\* and edits of config.json between them
MainNext ==
  \/ \E home \in BOOLEAN, resolves \in BOOLEAN, order \in WalkOrders :
       \E dir \in [FileNames -> PatternContents] :
         MainScan(home, MainProject, resolves, dir, order)
  \/ \E home \in BOOLEAN : MainList(home)
  \/ \E home \in BOOLEAN, action \in ConfigActions, pattern \in Patterns :
       MainConfig(home, action, pattern)
  \/ \E home \in BOOLEAN, f \in FileNames, state \in FileStates :
       \E content \in IF state = "text" THEN PatternContents ELSE {<<>>} :
         MainWatch(home, MainProject, Canonical(MainProject) \o <<f>>, state,
                   content)
  \/ \E home \in BOOLEAN, dry_run \in BOOLEAN :
       \E project_filter \in {MainProject, NoFilter} :
         MainClean(home, dry_run, project_filter)
  \/ \E pattern \in Patterns : EditConfig(pattern)

MainSpec == MainInit /\ [][MainNext]_vars

\* ------------------------------------------------------------ codemarks ci
\* value of an absent --pattern
NoPattern == "<no pattern>"

\* the source files of the directory given to ci
CiFiles == {"a.rs", "b.rs"}

\* the contents a file may have: lines that match a pattern or none, a line
\* that does not decode before a matching one, and a file that does not open
CiContents ==
  {<<"let x = 5;">>, <<"TODO later">>, <<BadLine, "// TODO: fix X">>,
   Unopenable}

\* the orders in which the walker may yield the files
CiOrders ==
  {o \in [1..Cardinality(CiFiles) -> CiFiles] :
     \A i, j \in DOMAIN o : i # j => o[i] # o[j]}

\* pattern.unwrap_or_else(default_annotation_pattern)
PatternToUse(pattern) ==
  IF pattern = NoPattern THEN DefaultAnnotationPattern ELSE pattern

\* the count stopping at the first line that does not decode
RECURSIVE CountMatchesWhileOk(_, _, _)
CountMatchesWhileOk(codemark_regex, content, i) ==
  IF i > Len(content) \/ ~Decodes(content[i]) THEN 0
  ELSE (IF IsMatchOf(codemark_regex, content[i]) THEN 1 ELSE 0)
       + CountMatchesWhileOk(codemark_regex, content, i + 1)

\* run_ci's loop over reader.lines().enumerate() from line i on: what it adds
\* to found
RECURSIVE CountMatches(_, _, _)
CountMatches(codemark_regex, content, i) ==
  IF i > Len(content) THEN 0
  ELSE (IF Decodes(content[i]) /\ IsMatchOf(codemark_regex, content[i])
        THEN 1 ELSE 0)
       + CountMatches(codemark_regex, content, i + 1)

\* found after run_ci's loop over the files order[i..]; the walker does not
\* yield the files the ignore rules exclude
RECURSIVE CiFound(_, _, _, _, _)
CiFound(codemark_regex, dir, ignored, order, i) ==
  IF i > Len(order) THEN 0
  ELSE (IF order[i] \notin ignored /\ Opens(dir[order[i]])
        THEN CountMatches(codemark_regex, dir[order[i]], 1) ELSE 0)
       + CiFound(codemark_regex, dir, ignored, order, i + 1)

\* the status run_ci ends the process with: the panic of expect() on a
\* pattern that does not compile, exit(1) or exit(0)
CiStatus(pattern_to_use, found) ==
  IF ~IsRegex(pattern_to_use) THEN 101
  ELSE IF found > 0 THEN 1 ELSE 0

\* count_annotations' loop over reader.lines().map_while(Result::ok) from
\* line i on: what it adds to found; a line that does not decode ends it
RECURSIVE CountLines(_, _, _)
CountLines(codemark_regex, content, i) ==
  IF i > Len(content) \/ ~Decodes(content[i]) THEN 0
  ELSE (IF IsMatchOf(codemark_regex, content[i]) THEN 1 ELSE 0)
       + CountLines(codemark_regex, content, i + 1)

\* found after count_annotations' loop over the files order[i..]
RECURSIVE CountFound(_, _, _, _, _)
CountFound(codemark_regex, dir, ignored, order, i) ==
  IF i > Len(order) THEN 0
  ELSE (IF order[i] \notin ignored /\ Opens(dir[order[i]])
        THEN CountLines(codemark_regex, dir[order[i]], 1) ELSE 0)
       + CountFound(codemark_regex, dir, ignored, order, i + 1)

\* the files of ~/.codemarks ci may start with
CiInit ==
  /\ store = EmptyDb
  /\ pre = EmptyDb
  /\ last = [op |-> "init"]
  /\ config_json \in {NoFile, DefaultAnnotationPattern, "TODO"}
  /\ projects_json \in BOOLEAN
  /\ NoWatch
  /\ NoDisk

\* codemarks ci --directory D [--pattern pattern] [--ignore ..], the directory
\* holding dir and the ignore rules excluding the files in ignored
Ci(home, dir, pattern, ignored, order) ==
  LET pattern_to_use == PatternToUse(pattern)
      found == IF IsRegex(pattern_to_use)
               THEN CiFound(pattern_to_use, dir, ignored, order, 1) ELSE 0
  IN  /\ config_json' = InitializedConfig(home, config_json)
      /\ projects_json' = InitializedProjects(home, projects_json)
      /\ pre' = store
      /\ last' = [op |-> "ci", pattern |-> pattern, dir |-> dir,
                  ignored |-> ignored, found |-> found,
                  status |-> CiStatus(pattern_to_use, found)]
      /\ UNCHANGED <<store, watchVars, diskVars>>

\* count_annotations(directory, pattern, ignore_patterns), the directory
\* holding dir and the ignore rules excluding the files in ignored
CountAnnotations(dir, pattern, ignored, order) ==
  LET pattern_to_use == PatternToUse(pattern)
  IN  /\ pre' = store
      /\ last' = [op |-> "count", pattern |-> pattern, dir |-> dir,
                  ignored |-> ignored,
                  result |-> IF IsRegex(pattern_to_use)
                             THEN CountFound(pattern_to_use, dir, ignored,
                                             order, 1)
                             ELSE Err]
      /\ UNCHANGED <<store, homeVars, watchVars, diskVars>>

\* invocations of ci, calls of count_annotations, and edits of config.json
\* between them
CiNext ==
  \/ \E home \in BOOLEAN, dir \in [CiFiles -> CiContents] :
       \E pattern \in Patterns \cup {NoPattern}, ignored \in SUBSET CiFiles :
         \E order \in CiOrders : Ci(home, dir, pattern, ignored, order)
  \/ \E dir \in [CiFiles -> CiContents], order \in CiOrders :
       \E pattern \in Patterns \cup {NoPattern}, ignored \in SUBSET CiFiles :
         CountAnnotations(dir, pattern, ignored, order)
  \/ \E pattern \in {DefaultAnnotationPattern, "TODO"} : EditConfig(pattern)

CiSpec == CiInit /\ [][CiNext]_vars

\* --------------------------------------- scans of files that do not read
\* the contents of the files: a line that does not decode before or after a
\* line that matches, and a file that does not open
ReadContents ==
  {<<"// TODO: fix X">>, <<BadLine, "// TODO: fix X">>,
   <<"// FIXME: fix Y", BadLine>>, Unopenable}

\* ~/.codemarks as initialize_codemarks has left it
ReadInit ==
  /\ store = EmptyDb
  /\ pre = EmptyDb
  /\ last = [op |-> "init"]
  /\ config_json = DefaultAnnotationPattern
  /\ projects_json = TRUE
  /\ NoWatch
  /\ NoDisk

\* scans of a directory of two such files, and cleanups
ReadNext ==
  \/ \E dir \in [CiFiles -> ReadContents], order \in CiOrders :
       MainScan(TRUE, MainProject, TRUE, dir, order)
  \/ \E dry_run \in BOOLEAN : MainClean(TRUE, dry_run, NoFilter)

ReadSpec == ReadInit /\ [][ReadNext]_vars

\* ------------------------------------------- one file edited between scans
\* the file with one annotation, at line 2
OneAtLine2 == <<"let x = 5;", "// TODO: fix X">>

\* the file with that annotation moved to line 5 and another one at line 2
MovedAndAdded ==
  <<"let x = 5;", "// FIXME: fix Y", "let x = 5;", "let x = 5;",
    "// TODO: fix X">>

\* the file with both annotations deleted
BothDeleted == <<"let x = 5;", "let x = 5;", "let x = 5;">>

\* the file with the second annotation alone, at line 1
OtherAlone == <<"// FIXME: fix Y">>

\* the versions of the file the scans may find
Versions == {OneAtLine2, MovedAndAdded, BothDeleted, OtherAlone}

\* scans of the directory /p, whose file a.rs is edited between them, and
\* cleanups
ScenarioNext ==
  \/ \E content \in Versions, order \in WalkOrders :
       Scan(MainProject, Canonical(MainProject), [f \in FileNames |-> content],
            order, FALSE)
  \/ \E dry_run \in BOOLEAN, project_filter \in {MainProject, NoFilter} :
       Clean(dry_run, project_filter)

ScenarioSpec == Init /\ [][ScenarioNext]_vars

\* ------------------------------------------------- the key of a directory
\* the names a manifest of the directory (Cargo.toml, package.json, go.mod,
\* ...) may give; NoFile when the directory has none
ManifestNames == {NoFile, "p", "app"}

\* scan_directory's project_name: the last component of the canonical path
ScanProjectName(canonical_dir) == canonical_dir[Len(canonical_dir)]

\* detect_project_name: the name of the first manifest found, the last
\* component of the canonical path when there is none
DetectProjectName(canonical_dir, manifest) ==
  IF manifest # NoFile THEN manifest ELSE canonical_dir[Len(canonical_dir)]

\* scans of the directory /p and file updates of codemarks watch on it, the
\* directory holding a manifest or not
KeyNext ==
  \/ \E dir \in Directories, order \in WalkOrders :
       Scan(ScanProjectName(Canonical(MainProject)), Canonical(MainProject),
            dir, order, FALSE)
  \/ \E manifest \in ManifestNames, f \in FileNames, state \in FileStates :
       \E content \in IF state = "text" THEN Contents ELSE {<<>>} :
         Watch(DetectProjectName(Canonical(MainProject), manifest),
               Canonical(MainProject) \o <<f>>, state, content, FALSE)

KeySpec == Init /\ [][KeyNext]_vars

\* ================================================================== claims
\* the identity of an annotation: its file and its text
SamePair(a, b) == a.file = b.file /\ a.description = b.description

\* number of entries of list with the file and text of c
Occurrences(list, c) == Len(SelectSeq(list, LAMBDA e : SamePair(e, c)))

\* number of unresolved entries of list with the file and text of c
UnresolvedOccurrences(list, c) ==
  Len(SelectSeq(list, LAMBDA e : SamePair(e, c) /\ ~e.resolved))

\* whether some entry of list has the file and text of c
Matches(list, c) == \E i \in 1..Len(list) : SamePair(list[i], c)

\* the list a project had before the last operation, empty if it was not stored
Before(k) == IF k \in DOMAIN pre THEN pre[k] ELSE <<>>

\* the list a project has now, empty if it is not stored
After(k) == IF k \in DOMAIN store THEN store[k] ELSE <<>>

\* the last operation was a scan of a project that was already stored
Rescanned == last.op = "scan" /\ last.project \in DOMAIN pre

\* C1: in every reachable store, no project's list holds two entries with the
\* same (file, text) pair.
C1_NoDuplicatePairs ==
  \A k \in DOMAIN store :
    \A i, j \in 1..Len(store[k]) :
      i # j => ~SamePair(store[k][i], store[k][j])

\* C2: after a scan of a stored project, every entry the project had whose
\* (file, text) the scan did not find is still at its place, with resolved =
\* true and its line number as it was.
C2_UnmatchedStayResolved ==
  Rescanned =>
    LET k == last.project
    IN  /\ Len(store[k]) >= Len(pre[k])
        /\ \A i \in 1..Len(pre[k]) :
             ~Matches(last.current, pre[k][i]) =>
               store[k][i] = [pre[k][i] EXCEPT !.resolved = TRUE]

\* C2 happens: a rescan has turned an unresolved entry it did not find again
\* into a resolved one.
C2_Witness ==
  /\ Rescanned
  /\ \E i \in 1..Len(pre[last.project]) :
       /\ ~Matches(last.current, pre[last.project][i])
       /\ ~pre[last.project][i].resolved
       /\ store[last.project][i].resolved

\* C3: after a scan of a stored project, every entry the project had whose
\* (file, text) the scan found is unresolved, carries a line number at which
\* the scan found that pair, and no entry was appended for the pair.
C3_MatchedUpdated ==
  Rescanned =>
    LET k == last.project
    IN  \A i \in 1..Len(pre[k]) :
          Matches(last.current, pre[k][i]) =>
            /\ i <= Len(store[k])
            /\ ~store[k][i].resolved
            /\ \E j \in 1..Len(last.current) :
                 /\ SamePair(last.current[j], pre[k][i])
                 /\ store[k][i].line_number = last.current[j].line_number
            /\ \A m \in (Len(pre[k]) + 1)..Len(store[k]) :
                 ~SamePair(store[k][m], pre[k][i])

\* C4: after a scan, every annotation it found whose (file, text) no entry of
\* the project had is an appended entry, unresolved and with the file, line
\* and text found; a project that was not stored holds exactly the
\* annotations found.
C4_UnmatchedAppended ==
  last.op = "scan" =>
    LET k == last.project
    IN  /\ k \notin DOMAIN pre => store[k] = last.current
        /\ \A j \in 1..Len(last.current) :
             ~Matches(Before(k), last.current[j]) =>
               \E m \in (Len(Before(k)) + 1)..Len(store[k]) :
                 store[k][m] = last.current[j]

\* C5: a scan that follows a scan of the same project and finds the same
\* annotations returns the same count, adds no entry and changes no resolved
\* flag.
C5_ScanIdempotent ==
  [][(/\ last.op = "scan"
      /\ last'.op = "scan"
      /\ last'.project = last.project
      /\ last'.ephemeral = last.ephemeral
      /\ last'.current = last.current)
     => (/\ last'.ret = last.ret
         /\ Len(store'[last.project]) = Len(store[last.project])
         /\ \A i \in 1..Len(store[last.project]) :
              store'[last.project][i].resolved
                = store[last.project][i].resolved)]_vars

\* C6: after a scan, the project holds for every (file, text) at least as many
\* unresolved entries as the scan found occurrences of it.
C6_DuplicatesKeptDistinct ==
  last.op = "scan" =>
    \A j \in 1..Len(last.current) :
      UnresolvedOccurrences(store[last.project], last.current[j])
        >= Occurrences(last.current, last.current[j])

\* the (project, index) places of the unresolved entries of the store
UnresolvedPlaces ==
  UNION {{<<k, i>> : i \in {n \in 1..Len(store[k]) : ~store[k][n].resolved}} :
           k \in DOMAIN store}

\* C7: the count a scan returns is the number of unresolved entries of the
\* whole store it has saved, all projects together.
C7_CountIsAllUnresolved ==
  last.op = "scan" => last.ret = Cardinality(UnresolvedPlaces)

\* C7 happens: a scan has returned a count that includes an unresolved entry
\* of another project, next to one of the scanned project.
C7_Witness ==
  /\ last.op = "scan"
  /\ \E i \in 1..Len(store[last.project]) : ~store[last.project][i].resolved
  /\ \E k \in DOMAIN store \ {last.project} :
       \E i \in 1..Len(store[k]) : ~store[k][i].resolved

\* the entries of list[i..] with resolved = false, in their order
RECURSIVE KeptFrom(_, _)
KeptFrom(list, i) ==
  IF i > Len(list) THEN <<>>
  ELSE (IF list[i].resolved THEN <<>> ELSE <<list[i]>>) \o KeptFrom(list, i + 1)

\* the last operation was a clean without --dry-run
Cleaned == last.op = "clean" /\ ~last.dry_run

\* the last clean had no --project, or --project k
InScope(k) == last.project_filter \in {NoFilter, k}

\* C8: after a clean without --dry-run, a project in its scope holds exactly
\* its unresolved entries, unchanged and in order, and is absent if it had
\* entries and all were resolved; a project outside its scope is as it was.
C8_CleanRemovesExactlyResolved ==
  Cleaned =>
    /\ DOMAIN store \subseteq DOMAIN pre
    /\ \A k \in DOMAIN pre :
         IF InScope(k)
         THEN /\ After(k) = KeptFrom(pre[k], 1)
              /\ (pre[k] # <<>> /\ KeptFrom(pre[k], 1) = <<>>)
                   => k \notin DOMAIN store
         ELSE k \in DOMAIN store /\ store[k] = pre[k]

\* C8 happens: a clean --project k has removed project k, all of whose entries
\* were resolved, and has left the resolved entries of another project.
C8_Witness ==
  /\ Cleaned
  /\ \E k \in DOMAIN pre \ DOMAIN store :
       /\ last.project_filter = k
       /\ pre[k] # <<>>
  /\ \E k \in DOMAIN store :
       \E i \in 1..Len(store[k]) : store[k][i].resolved

\* an entry with the file and text of c has left project k in the last operation
Left(k, c) == Occurrences(After(k), c) < Occurrences(pre[k], c)

\* no unresolved entry with the file and text of c has left project k
OnlyResolvedLeft(k, c) ==
  UnresolvedOccurrences(After(k), c) >= UnresolvedOccurrences(pre[k], c)

\* C9 as claimed: an annotation leaves the store only in a cleanup, and only
\* if it is resolved.
C9_OnlyCleanupDeletes ==
  \A k \in DOMAIN pre :
    \A i \in 1..Len(pre[k]) :
      Left(k, pre[k][i]) =>
        last.op = "clean" /\ OnlyResolvedLeft(k, pre[k][i])

\* C9 as amended: an annotation leaves the store only in a cleanup without
\* --dry-run that has its project in scope, and then only if it is resolved,
\* or in the update of the file it belongs to, in its project, resolved or
\* not; a scan deletes nothing.
C9_DeletedByCleanupOrFileUpdate ==
  \A k \in DOMAIN pre :
    \A i \in 1..Len(pre[k]) :
      Left(k, pre[k][i]) =>
        \/ /\ Cleaned
           /\ InScope(k)
           /\ OnlyResolvedLeft(k, pre[k][i])
        \/ /\ last.op = "watch"
           /\ last.state = "text"
           /\ last.project = k
           /\ last.file_path = pre[k][i].file

\* C9 happens: a file update has deleted an unresolved annotation.
C9_Witness ==
  /\ last.op = "watch"
  /\ \E k \in DOMAIN pre :
       \E i \in 1..Len(pre[k]) :
         Left(k, pre[k][i]) /\ ~OnlyResolvedLeft(k, pre[k][i])

\* C10 as claimed: a project key enters the store only in a scan of its
\* directory and leaves it only in a cleanup that removes its last entries.
C10_KeyByScanAndCleanupOnly ==
  /\ \A k \in DOMAIN store \ DOMAIN pre :
       last.op = "scan" /\ last.project = k
  /\ \A k \in DOMAIN pre \ DOMAIN store :
       last.op = "clean" /\ pre[k] # <<>>

\* C10 as amended: a project key enters the store only in a scan of its
\* directory or in a file update of its project that finds an annotation; it
\* leaves only in a cleanup without --dry-run that has it in scope and
\* removes an entry somewhere, and only if it has no unresolved entry.
C10_KeyEntersAndLeaves ==
  /\ \A k \in DOMAIN store \ DOMAIN pre :
       \/ last.op = "scan" /\ last.project = k
       \/ /\ last.op = "watch"
          /\ last.state = "text"
          /\ last.project = k
          /\ last.current # <<>>
  /\ \A k \in DOMAIN pre \ DOMAIN store :
       /\ Cleaned
       /\ InScope(k)
       /\ last.removed > 0
       /\ KeptFrom(pre[k], 1) = <<>>

\* C10 happens: a cleanup has dropped a project whose list was empty.
C10_Witness ==
  /\ Cleaned
  /\ \E k \in DOMAIN pre \ DOMAIN store : pre[k] = <<>>

\* the last operation was a file update that was not skipped
Updated == last.op = "watch" /\ last.state = "text"

\* the entries of list whose file is file_path, in their order
OfFile(list, file_path) == SelectSeq(list, LAMBDA cm : cm.file = file_path)

\* the entries of list whose file is not file_path, in their order
OfOtherFiles(list, file_path) == SelectSeq(list, LAMBDA cm : cm.file # file_path)

\* C11: after the update of a file that is not ignored, exists and reads as
\* text, the entries of the project whose file is that path are exactly the
\* annotations just matched in the file, all unresolved, whatever entries the
\* project had for the path.
C11_FileEntriesReplaced ==
  Updated =>
    /\ OfFile(After(last.project), last.file_path) = last.current
    /\ \A i \in 1..Len(last.current) : ~last.current[i].resolved

\* C11 happens: an update that matched an annotation has replaced an entry the
\* project had for the path, at another line.
C11_Witness ==
  /\ Updated
  /\ last.current # <<>>
  /\ \E i \in 1..Len(Before(last.project)) :
       /\ Before(last.project)[i].file = last.file_path
       /\ \A j \in 1..Len(last.current) :
            last.current[j].line_number # Before(last.project)[i].line_number

\* C12: a file update of a path that is ignored, deleted or not readable as
\* text returns 0 and leaves the persisted store as it was.
C12_SkippedLeavesStore ==
  (last.op = "watch" /\ last.state # "text") =>
    /\ last.ret = 0
    /\ store = pre

\* C12 happens: the update of a deleted file has left the entries stored for
\* that file in the store.
C12_Witness ==
  /\ last.op = "watch"
  /\ last.state = "deleted"
  /\ OfFile(After(last.project), last.file_path) # <<>>

\* C13: a file update of path P in project K leaves every other project as it
\* was, stored or not, and leaves the entries of K whose file is not P as they
\* were and in their order.
C13_OtherEntriesUntouched ==
  last.op = "watch" =>
    /\ \A k \in (DOMAIN pre \cup DOMAIN store) \ {last.project} :
         /\ k \in DOMAIN pre
         /\ k \in DOMAIN store
         /\ store[k] = pre[k]
    /\ OfOtherFiles(After(last.project), last.file_path)
         = OfOtherFiles(Before(last.project), last.file_path)

\* C13 happens: an update has changed the entries of its file in a project
\* that holds an entry of another file, while another project is stored.
C13_Witness ==
  /\ Updated
  /\ store # pre
  /\ OfOtherFiles(Before(last.project), last.file_path) # <<>>
  /\ DOMAIN pre \ {last.project} # {}

\* C14: any two calls of process_changed_file the watch loop makes for one
\* path are at least the debounce interval apart, whatever events arrive and
\* whenever the last-seen map is pruned.
C14_OncePerDebounceWindow ==
  \A i, j \in 1..Len(calls) :
    (i < j /\ calls[i].path = calls[j].path) =>
      calls[j].at - calls[i].at >= debounce_duration

\* C14 happens: a path was processed twice and has since been pruned from the
\* last-seen map, while an event for it is waiting.
C14_Witness ==
  /\ \E i, j \in 1..Len(calls) :
       /\ i < j
       /\ calls[i].path = calls[j].path
       /\ calls[j].path \notin DOMAIN recent_events
  /\ pc = "recv"

\* C15: the watch loop takes the events in the order they were sent, has at
\* most one event in hand, and calls process_changed_file only for the event
\* in hand: the calls made for one event all come before those of the next.
C15_OneEventAtATime ==
  /\ \A i \in 1..Len(taken) : taken[i] = i
  /\ \A i \in 1..Len(rx) : rx[i].id = Len(taken) + i
  /\ paths # <<>> => pc = "paths"
  /\ \A i \in 1..Len(calls) :
       /\ calls[i].event \in 1..Len(taken)
       /\ \A j \in (i + 1)..Len(calls) : calls[i].event <= calls[j].event
  /\ (pc = "paths" /\ calls # <<>>) =>
       calls[Len(calls)].event <= taken[Len(taken)]

\* C15 happens: two events were waiting on the channel together and the store
\* was updated for the first and then for the second.
C15_Witness ==
  /\ Len(taken) = 2
  /\ \E i, j \in 1..Len(calls) :
       i < j /\ calls[i].event = 1 /\ calls[j].event = 2
  /\ Updated
  /\ store # pre

\* the file is what some store serializes to
IsDocument(file) == file = Serialize(ParseFrom(file, 1, EmptyDb, ""))

\* invocation i has begun a save that has not written its document
InSave(i) ==
  \/ procs[i].pc = "created"
  \/ procs[i].pc = "killed" /\ procs[i].written = Len(saves)

\* no other invocation is in a save, and none has written since i began its own
AloneInSave(i) ==
  /\ procs[i].written = Len(saves)
  /\ \A j \in Procs \ {i} : ~InSave(j)

\* C16: while an invocation saves a store file that held a complete document,
\* and after it was terminated in that save, the file holds the complete
\* document it held before the save or the complete new document.
C16_SaveIsAtomic ==
  \A i \in Procs :
    (InSave(i) /\ AloneInSave(i) /\ IsDocument(procs[i].old)) =>
      disk \in {procs[i].old, Serialize(procs[i].db)}

\* C17: when no invocation is running, the store file holds the document of
\* the invocation that saved last, worked out from the snapshot it loaded.
C17_LastWriterWins ==
  ((\A i \in Procs : procs[i] = Idle) /\ saves # <<>>) =>
    LET s == saves[Len(saves)]
    IN  /\ disk = Serialize(s.db)
        /\ LoadFile(disk) = s.db

\* the file cannot be loaded: it is missing, is not text or is not a document
Unloadable(file) == ~IsDocument(file)

\* the only invocation so far was a scan and has ended
OneScanDone ==
  /\ runs = 1
  /\ Len(saves) = 1
  /\ saves[1].op = "scan"
  /\ \A i \in Procs : procs[i] = Idle

\* C18: an invocation that finds the store file missing, unreadable or not a
\* document works on the empty store, and a scan started on such a file ends
\* with the file holding exactly the project scanned and what was found.
C18_LoadFallsBackToEmpty ==
  /\ \A i \in Procs :
       (procs[i] # Idle /\ Unloadable(procs[i].read)) =>
         procs[i].snapshot = EmptyDb
  /\ (OneScanDone /\ Unloadable(saves[1].read)) =>
       /\ IsDocument(disk)
       /\ LoadFile(disk) = Insert(EmptyDb, saves[1].project, saves[1].current)

\* C18 happens: a scan that found an annotation has ended on a store file
\* that was cut short.
C18_Witness ==
  /\ OneScanDone
  /\ saves[1].read = Truncated
  /\ saves[1].current # <<>>

\* the last operation ran with --ephemeral
Ephemeral == last.op \in {"scan", "watch", "list"} /\ last.ephemeral

ScanText(line) == ScanLines(<<"a.rs">>, <<line>>, 1)[1].description

\* the text an incremental file update stores for one matching line
UpdateText(line) == ScanFile(<<"a.rs">>, <<line>>, 1)[1].description

\* C27: every annotation in the store, written by a full scan or by an
\* incremental file update, has a file value relative to the scanned root: no
\* stored file value starts at the root of the file system.
C27_FileRelativeOnBothPaths ==
  \A k \in DOMAIN store : \A i \in 1..Len(store[k]) :
    /\ store[k][i].file # <<>>
    /\ Head(store[k][i].file) # "/"

\* C28: one text-capture policy everywhere: the text an incremental file
\* update has just stored for a line is the text a full scan stores for the
\* same line.
C28_OneTextPolicy ==
  Updated =>
    \A i \in 1..Len(last.current) :
      \A line \in {l \in LineSet : IsMatch(l)} :
        UpdateText(line) = last.current[i].description
          => ScanText(line) = last.current[i].description

\* the pattern in effect with config.json holding file: what a load returns
StoredPattern(file) == IF file = NoFile THEN DefaultAnnotationPattern ELSE file

\* the last invocation was codemarks config set-pattern
SetPattern == last.op = "config" /\ last.action = "set-pattern"

\* C21: config set-pattern with a pattern that is not a regular expression
\* returns an error and leaves the stored pattern as it was; with a valid
\* pattern (and HOME set) it succeeds and the stored pattern is the supplied
\* one.
C21_SetPatternValidates ==
  SetPattern =>
    /\ ~IsRegex(last.supplied) =>
         /\ last.result = Err
         /\ StoredPattern(config_json) = StoredPattern(last.config_before)
    /\ (IsRegex(last.supplied) /\ last.home) =>
         /\ last.result = Ok
         /\ config_json = last.supplied

\* C21 happens: an invalid pattern was refused while a custom pattern was
\* stored, which is still stored.
C21_Witness ==
  /\ SetPattern
  /\ ~IsRegex(last.supplied)
  /\ last.home
  /\ last.config_before = "TODO"
  /\ config_json = "TODO"

\* the last invocation was a scan that had to fail before the walk: the
\* configured pattern is not a regular expression, or the directory does not
\* resolve
ScanRefused ==
  /\ last.op = "scan"
  /\ ~IsRegex(last.pattern) \/ ~last.resolves

\* C22: when the configured pattern is not a valid regular expression, or the
\* directory cannot be resolved, the scan returns an error, has walked no file
\* and has saved nothing: the persisted store is as it was, no stored
\* annotation flipped to resolved.
C22_RefusedScanLeavesStore ==
  ScanRefused =>
    /\ last.result = Err
    /\ last.current = <<>>
    /\ ~last.walked
    /\ store = pre

\* C22 happens: a scan of a project with a stored unresolved annotation was
\* refused for its pattern, and the annotation is still unresolved.
C22_Witness ==
  /\ ScanRefused
  /\ ~IsRegex(last.pattern)
  /\ last.resolves
  /\ last.project \in DOMAIN store
  /\ \E i \in 1..Len(store[last.project]) : ~store[last.project][i].resolved

\* the last step was an invocation of one of the five commands
Invoked == last.op \in {"scan", "list", "config", "watch", "clean"}

\* the last invocation met a configuration error: HOME was not set, or the
\* pattern it had to compile is not a regular expression
ConfigurationError ==
  /\ Invoked
  /\ \/ ~last.home
     \/ last.op \in {"scan", "watch"} /\ ~IsRegex(last.pattern)
     \/ SetPattern /\ ~IsRegex(last.supplied)

\* C24: a configuration error is fatal for the requested command: an error is
\* reported and the process exits with a status that is not 0, for scan, list,
\* config, watch and clean alike.
C24_ConfigurationErrorIsFatal ==
  ConfigurationError =>
    /\ "Error" \in last.stderr
    /\ last.status # 0

\* C25: with HOME not set, every command that reads or writes the persisted
\* store or configuration fails with an error: none goes on with the empty
\* store or the default pattern that a load returned.
C25_NoHomeNoDefaults ==
  (Invoked /\ ~last.home) => last.result = Err

\* the store a load returns with projects.json existing or not
StoredProjects(exists, persisted) == IF exists THEN persisted ELSE EmptyDb

\* C29: configuration and store are independent.  An invocation of config
\* (show, set-pattern, reset) leaves the store a load returns as it was; an
\* invocation of scan, watch or clean leaves the pattern a load returns as it
\* was; after a reset that succeeded config.json holds the default pattern,
\* whatever it held before.
C29_ConfigAndStoreIndependent ==
  /\ last.op = "config" =>
       StoredProjects(projects_json, store)
         = StoredProjects(last.projects_before, pre)
  /\ last.op \in {"scan", "watch", "clean"} =>
       StoredPattern(config_json) = StoredPattern(last.config_before)
  /\ (last.op = "config" /\ last.action = "reset" /\ last.result = Ok) =>
       config_json = DefaultAnnotationPattern

\* C29 happens: a reset has replaced a custom pattern by the default one while
\* the store held an annotation, which it still holds.
C29_Witness ==
  /\ last.op = "config"
  /\ last.action = "reset"
  /\ last.config_before = "TODO"
  /\ config_json = DefaultAnnotationPattern
  /\ StoreSize(store) > 0
  /\ store = pre

\* the last step was an invocation of ci with a pattern that compiles
CiRan == last.op = "ci" /\ IsRegex(last.pattern)

\* the pattern the claim gives to the last ci: --pattern when given, the
\* compiled-in default otherwise, whatever config.json holds
CiPattern ==
  IF last.pattern = NoPattern THEN DefaultAnnotationPattern ELSE last.pattern

\* a line of a file under the directory of the last ci, not excluded by the
\* ignore rules and readable, matches the pattern
SomeLineMatches ==
  \E f \in CiFiles \ last.ignored :
    \E i \in 1..Len(last.dir[f]) :
      /\ last.dir[f] # Unopenable
      /\ last.dir[f][i] # BadLine
      /\ IsMatchOf(CiPattern, last.dir[f][i])

\* C23: ci exits with status 0 exactly when no line under the directory (after
\* the ignore rules) matches the pattern, and with status 1 exactly when at
\* least one does; the pattern is --pattern when given, the compiled-in
\* default otherwise.
C23_CiStatusTellsMatches ==
  CiRan =>
    /\ last.status = 0 <=> ~SomeLineMatches
    /\ last.status = 1 <=> SomeLineMatches

\* C23 happens: ci without --pattern, with the pattern TODO configured, has
\* exited with 1 for the one line that matches the default pattern: a line
\* after one that does not decode, while the line of the other file matches
\* TODO only.
C23_Witness ==
  /\ last.op = "ci"
  /\ last.pattern = NoPattern
  /\ config_json = "TODO"
  /\ last.ignored = {}
  /\ last.dir["a.rs"] = <<"TODO later">>
  /\ last.dir["b.rs"] = <<BadLine, "// TODO: fix X">>
  /\ last.found = 1
  /\ last.status = 1

\* line i of file f of the scanned directory is read and matches the pattern
ReadAndMatched(f, i) ==
  /\ last.dir[f] # Unopenable
  /\ last.dir[f][i] # BadLine
  /\ IsMatchOf(last.pattern, last.dir[f][i])

\* C30: in a full scan a file that cannot be opened and a line that cannot be
\* decoded contribute no annotation, every other line that matches is found
\* with its 1-based line number, in the other files and in the same file, and
\* the scan completes and saves: every annotation found is in the store,
\* unresolved.
C30_UnreadableSkipped ==
  (last.op = "scan" /\ last.walked) =>
    /\ \A f \in DOMAIN last.dir : \A i \in 1..Len(last.dir[f]) :
         ReadAndMatched(f, i) <=>
           \E j \in 1..Len(last.current) :
             last.current[j] = Codemark(<<f>>, i, last.dir[f][i], FALSE)
    /\ \A j \in 1..Len(last.current) :
         /\ last.current[j].file[1] \in DOMAIN last.dir
         /\ last.current[j].line_number
              \in 1..Len(last.dir[last.current[j].file[1]])
         /\ ReadAndMatched(last.current[j].file[1],
                           last.current[j].line_number)
    /\ last.result = Ok
    /\ last.project \in DOMAIN store
    /\ \A j \in 1..Len(last.current) :
         \E n \in 1..Len(store[last.project]) :
           /\ store[last.project][n].file = last.current[j].file
           /\ store[last.project][n].description = last.current[j].description
           /\ ~store[last.project][n].resolved

\* C30 happens: a scan has passed over a file that does not open and a line
\* that does not decode, and has stored the annotation of line 2 of that file.
C30_Witness ==
  /\ last.op = "scan"
  /\ last.result = Ok
  /\ \E f \in DOMAIN last.dir : last.dir[f] = Unopenable
  /\ \E f \in DOMAIN last.dir :
       /\ last.dir[f] = <<BadLine, "// TODO: fix X">>
       /\ store[last.project]
            = <<Codemark(<<f>>, 2, "// TODO: fix X", FALSE)>>

\* the entry of the first annotation of a.rs, at the line and with the flag
First(line_number, resolved) ==
  Codemark(<<"a.rs">>, line_number, "// TODO: fix X", resolved)

\* the entry of the second annotation of a.rs, at the line and with the flag
Second(line_number, resolved) ==
  Codemark(<<"a.rs">>, line_number, "// FIXME: fix Y", resolved)

\* the store the scenario expects after its first scan, its rescan with the
\* annotation moved and another added, and its rescan with both deleted
AfterFirstScan == [k \in {MainProject} |-> <<First(2, FALSE)>>]
AfterMove == [k \in {MainProject} |-> <<First(5, FALSE), Second(2, FALSE)>>]
AfterDelete == [k \in {MainProject} |-> <<First(5, TRUE), Second(2, TRUE)>>]

\* the last operation was a scan of /p that found the annotations current
Scanned(current) ==
  /\ last.op = "scan"
  /\ last.project = MainProject
  /\ last.current = current

\* C26: from the empty store, the scan of a directory with one annotation at
\* line 2 leaves one unresolved entry at line 2; from there, the rescan with
\* the annotation moved to line 5 and a second one at line 2 leaves two
\* unresolved entries, at lines 5 and 2, and none resolved; from there, the
\* rescan with both deleted leaves both resolved and returns the unresolved
\* count 0; from there, clean leaves the empty store, without the project.
C26_MoveAddDeleteClean ==
  /\ (Scanned(<<First(2, FALSE)>>) /\ pre = EmptyDb) =>
       store = AfterFirstScan
  /\ (Scanned(<<Second(2, FALSE), First(5, FALSE)>>) /\ pre = AfterFirstScan) =>
       store = AfterMove
  /\ (Scanned(<<>>) /\ pre = AfterMove) =>
       /\ store = AfterDelete
       /\ last.ret = 0
  /\ (last.op = "clean" /\ ~last.dry_run /\ pre = AfterDelete) =>
       /\ store = EmptyDb
       /\ MainProject \notin DOMAIN store

\* C26 happens: the scenario has come to its end, the clean of the two
\* entries that the rescans have moved, added and resolved.
C26_Witness ==
  /\ last.op = "clean"
  /\ ~last.dry_run
  /\ pre = AfterDelete
  /\ store = EmptyDb

\* the last clean covered a resolved entry: one of a project in its scope
FoundResolved ==
  \E k \in DOMAIN pre :
    /\ InScope(k)
    /\ \E i \in 1..Len(pre[k]) : pre[k][i].resolved

\* C31: a clean with --dry-run, and a clean without it that finds no resolved
\* annotation in the projects it covers, write nothing: the persisted store,
\* projects with empty lists included, is as it was.
C31_CleanWithoutEffect ==
  (last.op = "clean" /\ (last.dry_run \/ ~FoundResolved)) =>
    /\ store = pre
    /\ DOMAIN store = DOMAIN pre

\* C31 happens: a dry run has left a resolved entry it covers and a project
\* with an empty list in the store.
C31_Witness ==
  /\ last.op = "clean"
  /\ last.dry_run
  /\ FoundResolved
  /\ \E k \in DOMAIN store : InScope(k) /\ store[k] = <<>>

\* C32: after a scan of a stored project, every entry the project had with
\* resolved = true whose (file, text) the scan found is unresolved, carries a
\* line number at which the scan found the pair, and the project holds no
\* more entries of the pair than it did.
C32_ResolvedSetBack ==
  Rescanned =>
    LET k == last.project
    IN  \A i \in 1..Len(pre[k]) :
          (pre[k][i].resolved /\ Matches(last.current, pre[k][i])) =>
            /\ i <= Len(store[k])
            /\ SamePair(store[k][i], pre[k][i])
            /\ ~store[k][i].resolved
            /\ \E j \in 1..Len(last.current) :
                 /\ SamePair(last.current[j], pre[k][i])
                 /\ store[k][i].line_number = last.current[j].line_number
            /\ Occurrences(store[k], pre[k][i]) = Occurrences(pre[k], pre[k][i])

\* the (file, text) pairs of the entries of list
Pairs(list) == {<<list[i].file, list[i].description>> : i \in 1..Len(list)}

\* the places of list that hold an unresolved entry
UnresolvedAt(list) == {i \in 1..Len(list) : ~list[i].resolved}

\* C33: after a scan of a project that was already stored, the number of the
\* project's unresolved entries is the number of distinct (file, text) pairs
\* the scan found, whatever the stored list held, duplicates included.
C33_UnresolvedArePairsFound ==
  Rescanned =>
    Cardinality(UnresolvedAt(store[last.project]))
      = Cardinality(Pairs(last.current))

\* C33 happens: a rescan that found a pair twice, on a stored list that held
\* the pair twice, has left one unresolved entry.
C33_Witness ==
  /\ Rescanned
  /\ Len(last.current) > Cardinality(Pairs(last.current))
  /\ Len(pre[last.project]) > Cardinality(Pairs(pre[last.project]))
  /\ Pairs(pre[last.project]) = Pairs(last.current)
  /\ Cardinality(UnresolvedAt(store[last.project])) = 1

\* no two entries of list have the same (file, text)
Distinct(list) == Cardinality(Pairs(list)) = Len(list)

\* C34: a rescan introduces no duplicate: a stored list with pairwise distinct
\* (file, text) pairs has pairwise distinct pairs after the scan of its
\* project, also when the scan found the same pair several times.
C34_RescanAddsNoDuplicate ==
  (Rescanned /\ Distinct(pre[last.project])) => Distinct(store[last.project])

\* C34 happens: a rescan that found a new pair twice has appended one entry
\* to a list of distinct pairs.
C34_Witness ==
  /\ Rescanned
  /\ Distinct(pre[last.project])
  /\ Len(last.current) > Cardinality(Pairs(last.current))
  /\ Pairs(last.current) \cap Pairs(pre[last.project]) = {}
  /\ Len(store[last.project]) = Len(pre[last.project]) + 1

\* C35: a scan of project K leaves the list of every other project as it was,
\* removes no entry of K, changes the file and the text of none, and keeps
\* the entries K had at their places, the new entries after them, each with
\* the file and text of an annotation found.
C35_ScanKeepsEntriesInPlace ==
  last.op = "scan" =>
    LET k == last.project
    IN  /\ \A o \in (DOMAIN pre \cup DOMAIN store) \ {k} :
             /\ o \in DOMAIN pre
             /\ o \in DOMAIN store
             /\ store[o] = pre[o]
        /\ k \in DOMAIN store
        /\ Len(store[k]) >= Len(Before(k))
        /\ \A i \in 1..Len(Before(k)) : SamePair(store[k][i], pre[k][i])
        /\ \A m \in (Len(Before(k)) + 1)..Len(store[k]) :
             /\ Matches(last.current, store[k][m])
             /\ ~Matches(Before(k), store[k][m])

\* C35 happens: a scan has appended an entry to a project that had one, while
\* another project was stored.
C35_Witness ==
  /\ last.op = "scan"
  /\ Before(last.project) # <<>>
  /\ Len(store[last.project]) > Len(Before(last.project))
  /\ DOMAIN pre \ {last.project} # {}

\* what run_ci counts on the input of the last call of count_annotations,
\* the files walked in the order o
RunCiFound(o) ==
  CiFound(PatternToUse(last.pattern), last.dir, last.ignored, o, 1)

\* C36: count_annotations returns, for every directory content, pattern and
\* ignore list, the number that run_ci counts on the same input, also for a
\* file with a line that does not decode before lines that match.
C36_CountIsWhatCiCounts ==
  (last.op = "count" /\ IsRegex(PatternToUse(last.pattern))) =>
    \A o \in CiOrders : last.result = RunCiFound(o)

\* the last invocation was a watch that processed the file of its event, with
\* HOME set
Processed ==
  /\ last.op = "watch"
  /\ last.handled
  /\ last.state = "text"
  /\ last.home

\* the lines of the processed file that match the configured pattern
MatchingLines ==
  {i \in 1..Len(last.content) : IsMatchOf(last.pattern, last.content[i])}

\* C37: for a file that is processed, the count returned and the annotations
\* stored for the file correspond to the lines of the file that match the
\* configured pattern, one annotation per matching line with its 1-based
\* line number, for every valid pattern, one without a capture group
\* included.
C37_OneAnnotationPerMatch ==
  Processed =>
    LET stored == OfFile(After(last.project), last.file_path)
    IN  /\ last.ret = Cardinality(MatchingLines)
        /\ Len(stored) = Cardinality(MatchingLines)
        /\ {stored[n].line_number : n \in 1..Len(stored)} = MatchingLines

\* the directory watched in the last file update: the parent of its file
DirectoryOf(file_path) == SubSeq(file_path, 1, Len(file_path) - 1)

\* C38: for the same directory the full scan and watch mode derive the same
\* project key: the key a file update works on is the key under which the
\* full scan of the watched directory reconciles.
C38_SameKeyOnBothPaths ==
  last.op = "watch" =>
    last.project = ScanProjectName(DirectoryOf(last.file_path))

\* C39: clean is idempotent: the store a clean without --dry-run leaves is
\* the store a second clean with the same filter leaves, and after a clean
\* without --project no entry has resolved = true.
C39_CleanTwiceIsCleanOnce ==
  Cleaned =>
    /\ CleanResolved(store, FALSE, last.project_filter) = store
    /\ last.project_filter = NoFilter =>
         \A k \in DOMAIN store :
           \A n \in 1..Len(store[k]) : ~store[k][n].resolved

\* a clean without --project has removed resolved entries and left others
C39_Witness ==
  /\ Cleaned
  /\ last.project_filter = NoFilter
  /\ last.removed > 0
  /\ \E k \in DOMAIN store : store[k] # <<>>

\* the entries stored for every watched file are the matches of what it holds
Settled ==
  \A f \in WatchedFiles :
    OfFile(After(WatchedProject), f) = ScanFile(f, files[f], 1)

\* C40: in watch mode, once the events for a text file have stopped, the
\* entries stored for the file are from some point on the matches of what the
\* file holds: a write inside the debounce window of a processed event for
\* the same path is processed later, not dropped.  (The writes are bounded,
\* so in every behaviour the events stop.)
C40_WritesAreDeferredNotLost == <>[]Settled

============================================================================
